---- MODULE Spec2Model ----
(***************************************************************************)
(* Model of the chat relay servers of chatBot-gemini: the socket.io        *)
(* connection handlers of the Buddy-memory server (connectedUsers,         *)
(* userMemory, the async 'message' handler suspended on                    *)
(* model.generateContent) and of the plain server (same handlers, no       *)
(* memory, inner try/catch around the generation).                         *)
(***************************************************************************)
EXTENDS Integers, Sequences, FiniteSets, TLC

\* ---------------------------------------------------------------- bounds
NumConns == 2          \* socket ids the transport hands out
MaxMsgs == 2           \* accepted 'message' events in a run of Spec
MaxOneMsgs == 6        \* accepted 'message' events in a run of SpecOne
MaxOnePending == 2     \* generations in flight at once in a run of SpecOne
MaxClock == 1          \* milliseconds the clock advances in a run of SpecClock
MaxWire == 3           \* events of the client in flight or buffered in SpecClient

\* ------------------------------------------------------ program constants
Cap == 10              \* if (chatHistory.length > 10) chatHistory.shift()

Conns == 1..NumConns
Usernames == {"alice", "bob"}
\* the texts the clients send, the k-th accepted message carrying the k-th
TextSeq == <<"m1", "m2", "m3", "m4", "m5", "m6", "m7", "m8">>
Texts == {TextSeq[i] : i \in 1..Len(TextSeq)}
SeqNo(text) == CHOOSE i \in 1..Len(TextSeq) : TextSeq[i] = text
Replies == {"ok"}
Undefined == [defined |-> FALSE]      \* a missing payload (undefined / null)

\* payloads a client can put on the wire
JoinPayloads ==
  {[defined |-> TRUE, username |-> u] : u \in Usernames} \cup {Undefined}
MessagePayloads ==
  {[defined |-> TRUE, message |-> m, username |-> u] : m \in Texts, u \in Usernames}
    \cup {Undefined}
TypingPayloads ==
  {[defined |-> TRUE, isTyping |-> b] : b \in BOOLEAN} \cup {Undefined}

VARIABLES
  server,          \* which server program runs: "buddy" or "plain"
  process,         \* "running" or "exited" (process.exit(1))
  socketState,     \* socket id -> "idle" | "open" | "closed"
  connectedUsers,  \* Map socket.id -> {username}
  userMemory,      \* Map socket.id -> reference of its chatHistory array
  heap,            \* array reference -> contents of the array
  pending,         \* 'message' handlers suspended on await generateContent
  out,             \* events emitted by the handler step that ran last
  handled,         \* the inbound event / continuation that ran last
  nextEv,          \* number of 'message' events accepted so far
  echoed,          \* message events whose user_message has been broadcast
  appended,        \* array reference -> every turn ever pushed to it
  now,             \* Date.now(), in milliseconds
  echoId,          \* message event -> id of its user_message
  lastCount,       \* count of the user_count broadcast last, -1 before any
  client           \* the frontend App: its socket, its React state, its emits

vars == <<server, process, socketState, connectedUsers, userMemory, heap,
          pending, out, handled, nextEv, echoed, appended, now, echoId,
          lastCount, client>>

\* ------------------------------------------------------------ Map helpers
MapHas(m, k) == k \in DOMAIN m
\* variant: an existing entry is kept, the new value is dropped
MapSetIfAbsent(m, k, v) ==
  [x \in (DOMAIN m) \cup {k} |-> IF x \in DOMAIN m THEN m[x] ELSE v]

MapSet(m, k, v) == [x \in (DOMAIN m) \cup {k} |-> IF x = k THEN v ELSE m[x]]
MapDelete(m, k) == [x \in (DOMAIN m) \ {k} |-> m[x]]
MapSize(m) == Cardinality(DOMAIN m)
EmptyMap == [x \in {} |-> 0]

\* ------------------------------------------------------ transport emitters
\* io.emit: every connected socket
IoEmit(st) == {c \in Conns : st[c] = "open"}
\* socket.broadcast.emit: every connected socket but the sender
BroadcastEmit(st, c) == IoEmit(st) \ {c}
\* socket.emit: the socket itself, when still connected
SocketEmit(st, c) == IoEmit(st) \cap {c}

\* ------------------------------------------------------------ chat history
UserTurn(text) == [role |-> "user", content |-> text]
AssistantTurn(text) == [role |-> "assistant", content |-> text]

\* variant: pop() in place of shift(), the newest turn is dropped
PushUserDropNewest(chatHistory, message) ==
  LET pushed == Append(chatHistory, UserTurn(message))
  IN  IF Len(pushed) > Cap THEN SubSeq(pushed, 1, Len(pushed) - 1) ELSE pushed

\* variant: unshift() in place of push(), the new turn goes to the front
PushUserFront(chatHistory, message) ==
  LET pushed == <<UserTurn(message)>> \o chatHistory
  IN  IF Len(pushed) > Cap THEN Tail(pushed) ELSE pushed

\* chatHistory.push({role:'user',...}); if (length > 10) chatHistory.shift()
PushUser(chatHistory, message) ==
  LET pushed == Append(chatHistory, UserTurn(message))
  IN  IF Len(pushed) > Cap THEN Tail(pushed) ELSE pushed

\* chatHistory.push({ role: 'assistant', content: aiResponse })
PushAssistant(chatHistory, aiResponse) ==
  Append(chatHistory, AssistantTurn(aiResponse))

\* chatHistory.map(msg => `${role === 'user' ? 'User' : 'Buddy'}: ${content}`)
HistoryString(chatHistory) ==
  [i \in 1..Len(chatHistory) |->
     <<IF chatHistory[i].role = "user" THEN "User" ELSE "Buddy",
       chatHistory[i].content>>]

\* ---------------------------------------------------------- outbound events
ErrorEv(to, text) == [name |-> "error", to |-> to, message |-> text]
UserCountEv(to, count) == [name |-> "user_count", to |-> to, count |-> count]
UserJoinedEv(to, username) ==
  [name |-> "user_joined", to |-> to, username |-> username]
UserLeftEv(to, username) ==
  [name |-> "user_left", to |-> to, username |-> username]
UserTypingEv(to, username, isTyping) ==
  [name |-> "user_typing", to |-> to, username |-> username,
   isTyping |-> isTyping]
UserMessageEv(to, id, username, message) ==
  [name |-> "user_message", to |-> to, id |-> id, username |-> username,
   message |-> message, type |-> "user"]
AiMessageEv(to, id, message, type) ==
  [name |-> "ai_message", to |-> to, id |-> id, username |-> "AI Assistant",
   message |-> message, type |-> type]

\* the count of the last user_count among the events emitted, else the old one
LastUserCount(prev, emits) ==
  LET counts == {i \in 1..Len(emits) : emits[i].name = "user_count"}
  IN  IF counts = {} THEN prev
      ELSE emits[CHOOSE i \in counts : \A j \in counts : j <= i].count

SorryText == "Sorry, I encountered an error"
NoData == [defined |-> FALSE]
Handled(kind, c, data, ev) == [kind |-> kind, conn |-> c, data |-> data, ev |-> ev]

\* the frontend before its effect has run: no transport yet, the username
\* modal shown, nothing emitted
ClientStart ==
  [socket |-> 0, isConnected |-> FALSE, username |-> "",
   showUsernameModal |-> TRUE, sent |-> 0, wire |-> <<>>]

\* ------------------------------------------------------------------- Init
Init ==
  /\ server \in {"buddy", "plain"}
  /\ process = "running"
  /\ socketState = [c \in Conns |-> "idle"]
  /\ connectedUsers = EmptyMap
  /\ userMemory = EmptyMap
  /\ heap = [c \in Conns |-> <<>>]
  /\ pending = {}
  /\ out = <<>>
  /\ handled = Handled("start", 0, NoData, -1)
  /\ nextEv = 0
  /\ echoed = {}
  /\ appended = [c \in Conns |-> <<>>]
  /\ now = 0
  /\ echoId = EmptyMap
  /\ lastCount = -1
  /\ client = ClientStart

\* variant: a generation that blocks the event loop until it returns
CanDispatchBlocking(c) ==
  process = "running" /\ socketState[c] = "open" /\ pending = {}

\* a handler of socket c can be dispatched
CanDispatch(c) == process = "running" /\ socketState[c] = "open"

\* an exception that escapes a handler: process.on('uncaughtException') calls
\* process.exit(1); the maps, the arrays and the suspended handlers go with
\* the process and every open socket is closed
Crash(kind, c, data) ==
  /\ process' = "exited"
  /\ out' = <<>>
  /\ handled' = Handled(kind, c, data, -1)
  /\ socketState' = [d \in Conns |->
                       IF socketState[d] = "open" THEN "closed" ELSE socketState[d]]
  /\ connectedUsers' = EmptyMap
  /\ userMemory' = EmptyMap
  /\ heap' = [d \in Conns |-> <<>>]
  /\ appended' = [d \in Conns |-> <<>>]
  /\ pending' = {}
  /\ UNCHANGED <<now, echoId, server, nextEv, echoed>>

\* io.on('connection'): the transport hands out the socket ids in turn
Connect(c) ==
  /\ process = "running"
  /\ socketState[c] = "idle"
  /\ \A d \in Conns : d < c => socketState[d] # "idle"
  /\ socketState' = [socketState EXCEPT ![c] = "open"]
  /\ out' = <<>>
  /\ handled' = Handled("connection", c, NoData, -1)
  /\ UNCHANGED <<now, echoId, server, process, connectedUsers, userMemory, heap, pending,
                 nextEv, echoed, appended>>
  /\ lastCount' = LastUserCount(lastCount, out')

\* variant: user_joined sent with io.emit, the joiner included
JoinEmitsToAll(st, users, c, username) ==
  << UserJoinedEv(IoEmit(st), username),
     UserCountEv(IoEmit(st), MapSize(users)) >>

\* variant: the user_count after the set is missing
JoinEmitsNoCount(st, users, c, username) ==
  << UserJoinedEv(BroadcastEmit(st, c), username) >>

\* events of socket.on('user_join'), given the registry after the set
JoinEmits(st, users, c, username) ==
  << UserJoinedEv(BroadcastEmit(st, c), username),
     UserCountEv(IoEmit(st), MapSize(users)) >>

\* socket.on('user_join')
UserJoin(c, userData) ==
  /\ CanDispatch(c)
  /\ IF ~userData.defined
       THEN Crash("user_join", c, userData)
       ELSE /\ connectedUsers' =
                 MapSet(connectedUsers, c,
                        [username |-> userData.username, joinTime |-> now])
            /\ out' = JoinEmits(socketState, connectedUsers', c, userData.username)
            /\ handled' = Handled("user_join", c, userData, -1)
            /\ UNCHANGED <<now, echoId, server, process, socketState, userMemory, heap,
                           pending, nextEv, echoed, appended>>
  /\ lastCount' = LastUserCount(lastCount, out')

\* variant: the lookup guard is missing
UserFoundAlways(users, c) == TRUE

\* const user = connectedUsers.get(socket.id); if (!user) ... of 'message'
UserFound(users, c) == MapHas(users, c)

\* variant: the echo is not emitted before the generation
MessageEchoNone(st, messageData) == <<>>

\* io.emit('user_message', ...) of socket.on('message'), before the generation
MessageEcho(st, messageData) ==
  << UserMessageEv(IoEmit(st), now, messageData.username, messageData.message) >>

\* the prompt handed to model.generateContent
Prompt(srv, chatHistory, messageData) ==
  IF srv = "buddy" THEN HistoryString(chatHistory)
                   ELSE << <<"Message", messageData.message>> >>

\* variant: one array shared by all sockets
HistoryRefShared(memory, c) == 1

\* const chatHistory = userMemory.get(socket.id), after the lazy
\* userMemory.set(socket.id, []): the socket's own array
HistoryRef(memory, c) == IF MapHas(memory, c) THEN memory[c] ELSE c

\* socket.on('message') up to the await: the guard, the echo, the memory
\* update and the call of model.generateContent
Message(c, messageData) ==
  /\ CanDispatch(c)
  /\ UNCHANGED <<now, server, process, socketState, connectedUsers>>
  /\ IF ~messageData.defined
       THEN \* the destructuring throws inside the try: catch (error)
            /\ out' = << ErrorEv(SocketEmit(socketState, c), "Failed to process message") >>
            /\ handled' = Handled("message", c, messageData, -1)
            /\ UNCHANGED <<userMemory, heap, pending, nextEv, echoed, appended,
                           echoId>>
       ELSE IF ~UserFound(connectedUsers, c)
       THEN /\ out' = << ErrorEv(SocketEmit(socketState, c),
                                 "User not found. Please reconnect.") >>
            /\ handled' = Handled("message", c, messageData, -1)
            /\ UNCHANGED <<userMemory, heap, pending, nextEv, echoed, appended,
                           echoId>>
       ELSE LET ref == HistoryRef(userMemory, c)
                old == IF MapHas(userMemory, c) THEN heap[ref] ELSE <<>>
                oldAll == IF MapHas(userMemory, c) THEN appended[ref] ELSE <<>>
                chatHistory == PushUser(old, messageData.message)
                echo == MessageEcho(socketState, messageData)
            IN  /\ out' = echo
                /\ echoed' = IF \E i \in 1..Len(echo) : echo[i].name = "user_message"
                               THEN echoed \cup {nextEv} ELSE echoed
                /\ echoId' = IF \E i \in 1..Len(echo) : echo[i].name = "user_message"
                               THEN MapSet(echoId, nextEv,
                                      echo[CHOOSE i \in 1..Len(echo) :
                                             echo[i].name = "user_message"].id)
                               ELSE echoId
                /\ handled' = Handled("message", c, messageData, nextEv)
                /\ nextEv' = nextEv + 1
                /\ IF server = "buddy"
                     THEN /\ userMemory' = MapSet(userMemory, c, ref)
                          /\ heap' = [heap EXCEPT ![ref] = chatHistory]
                          /\ appended' = [appended EXCEPT ![ref] =
                                            Append(oldAll, UserTurn(messageData.message))]
                          /\ pending' = pending \cup
                               {[ev |-> nextEv, conn |-> c, chatHistory |-> ref,
                                 prompt |-> Prompt(server, chatHistory, messageData)]}
                     ELSE /\ UNCHANGED <<userMemory, heap, appended>>
                          /\ pending' = pending \cup
                               {[ev |-> nextEv, conn |-> c, chatHistory |-> 0,
                                 prompt |-> Prompt(server, <<>>, messageData)]}
  /\ lastCount' = LastUserCount(lastCount, out')

\* variant: the reply's id is Date.now() without the + 1
ReplyEmitsNoOffset(st, aiResponse) ==
  << AiMessageEv(IoEmit(st), now, aiResponse, "ai") >>

\* events of the continuation after a successful generation
ReplyEmits(st, aiResponse) ==
  << AiMessageEv(IoEmit(st), now + 1, aiResponse, "ai") >>

\* events of the catch block that receives a failed generation:
\* catch (error) of the Buddy server, catch (aiError) of the plain server
FailureEmits(srv, st, c) ==
  IF srv = "buddy"
    THEN << ErrorEv(SocketEmit(st, c), "Failed to process message") >>
    ELSE << AiMessageEv(IoEmit(st), now + 1, SorryText, "ai_error") >>

\* variant: the continuation stores its array back with userMemory.set
GenerateOkRecreates(p, aiResponse) ==
  /\ process = "running"
  /\ p \in pending
  /\ pending' = pending \ {p}
  /\ out' = ReplyEmits(socketState, aiResponse)
  /\ handled' = Handled("generate_ok", p.conn, [defined |-> TRUE, text |-> aiResponse], p.ev)
  /\ IF server = "buddy"
       THEN /\ heap' = [heap EXCEPT ![p.chatHistory] = PushAssistant(@, aiResponse)]
            /\ appended' = [appended EXCEPT ![p.chatHistory] =
                              Append(@, AssistantTurn(aiResponse))]
            /\ userMemory' = MapSet(userMemory, p.conn, p.chatHistory)
       ELSE UNCHANGED <<heap, appended, userMemory>>
  /\ UNCHANGED <<now, echoId, server, process, socketState, connectedUsers, nextEv, echoed>>
  /\ lastCount' = LastUserCount(lastCount, out')

\* variant: the reply of a sender that has disconnected is dropped
GenerateOkCancelled(p, aiResponse) ==
  /\ process = "running"
  /\ p \in pending
  /\ pending' = pending \ {p}
  /\ out' = IF socketState[p.conn] = "open" THEN ReplyEmits(socketState, aiResponse)
                                           ELSE <<>>
  /\ handled' = Handled("generate_ok", p.conn, [defined |-> TRUE, text |-> aiResponse], p.ev)
  /\ IF server = "buddy"
       THEN /\ heap' = [heap EXCEPT ![p.chatHistory] = PushAssistant(@, aiResponse)]
            /\ appended' = [appended EXCEPT ![p.chatHistory] =
                              Append(@, AssistantTurn(aiResponse))]
       ELSE UNCHANGED <<heap, appended>>
  /\ UNCHANGED <<now, echoId, server, process, socketState, connectedUsers, userMemory,
                 nextEv, echoed>>
  /\ lastCount' = LastUserCount(lastCount, out')

\* the continuation of socket.on('message') when generateContent resolves
GenerateOk(p, aiResponse) ==
  /\ process = "running"
  /\ p \in pending
  /\ pending' = pending \ {p}
  /\ out' = ReplyEmits(socketState, aiResponse)
  /\ handled' = Handled("generate_ok", p.conn, [defined |-> TRUE, text |-> aiResponse], p.ev)
  /\ IF server = "buddy"
       THEN /\ heap' = [heap EXCEPT ![p.chatHistory] = PushAssistant(@, aiResponse)]
            /\ appended' = [appended EXCEPT ![p.chatHistory] =
                              Append(@, AssistantTurn(aiResponse))]
       ELSE UNCHANGED <<heap, appended>>
  /\ UNCHANGED <<now, echoId, server, process, socketState, connectedUsers, userMemory,
                 nextEv, echoed>>
  /\ lastCount' = LastUserCount(lastCount, out')

\* variant: the catch block issues the generation again
GenerateFailRetries(p) ==
  /\ process = "running"
  /\ p \in pending
  /\ pending' = pending
  /\ out' = FailureEmits(server, socketState, p.conn)
  /\ handled' = Handled("generate_fail", p.conn, NoData, p.ev)
  /\ UNCHANGED <<now, echoId, server, process, socketState, connectedUsers, userMemory,
                 heap, nextEv, echoed, appended>>
  /\ lastCount' = LastUserCount(lastCount, out')

\* variant: the catch block drops the sender from the registry
GenerateFailDrops(p) ==
  /\ process = "running"
  /\ p \in pending
  /\ pending' = pending \ {p}
  /\ out' = FailureEmits(server, socketState, p.conn)
  /\ handled' = Handled("generate_fail", p.conn, NoData, p.ev)
  /\ connectedUsers' = MapDelete(connectedUsers, p.conn)
  /\ UNCHANGED <<now, echoId, server, process, socketState, userMemory,
                 heap, nextEv, echoed, appended>>
  /\ lastCount' = LastUserCount(lastCount, out')

\* the continuation of socket.on('message') when generateContent rejects
\* (or result.response.text() throws)
GenerateFail(p) ==
  /\ process = "running"
  /\ p \in pending
  /\ pending' = pending \ {p}
  /\ out' = FailureEmits(server, socketState, p.conn)
  /\ handled' = Handled("generate_fail", p.conn, NoData, p.ev)
  /\ UNCHANGED <<now, echoId, server, process, socketState, connectedUsers, userMemory,
                 heap, nextEv, echoed, appended>>
  /\ lastCount' = LastUserCount(lastCount, out')

\* variant: an else branch that reports the missing user, as 'message' does
TypingIgnoredEmitsError(st, c) ==
  << ErrorEv(SocketEmit(st, c), "User not found. Please reconnect.") >>

\* socket.on('typing') has no else branch: nothing is emitted without a user
TypingIgnoredEmits(st, c) == <<>>

\* variant: user_typing sent with io.emit, the sender included
TypingEmitsToAll(st, users, c, data) ==
  << UserTypingEv(IoEmit(st), users[c].username, data.isTyping) >>

\* socket.broadcast.emit('user_typing', ...) of socket.on('typing')
TypingEmits(st, users, c, data) ==
  << UserTypingEv(BroadcastEmit(st, c), users[c].username, data.isTyping) >>

\* socket.on('typing')
Typing(c, data) ==
  /\ CanDispatch(c)
  /\ IF MapHas(connectedUsers, c)
       THEN IF ~data.defined
              THEN Crash("typing", c, data)    \* data.isTyping throws
              ELSE /\ out' = TypingEmits(socketState, connectedUsers, c, data)
                   /\ handled' = Handled("typing", c, data, -1)
                   /\ UNCHANGED <<now, echoId, server, process, socketState, connectedUsers,
                                  userMemory, heap, pending, nextEv, echoed,
                                  appended>>
       ELSE /\ out' = TypingIgnoredEmits(socketState, c)
            /\ handled' = Handled("typing", c, data, -1)
            /\ UNCHANGED <<now, echoId, server, process, socketState, connectedUsers,
                           userMemory, heap, pending, nextEv, echoed, appended>>
  /\ lastCount' = LastUserCount(lastCount, out')

\* variant: the count is read before connectedUsers.delete
DisconnectCountStale(users, c) == MapSize(users)

\* the count carried by the user_count of socket.on('disconnect')
DisconnectCount(users, c) == MapSize(MapDelete(users, c))

\* variant: the user_left notification is missing
LeaveEmitsNoLeft(st, users, c) ==
  << UserCountEv(IoEmit(st), DisconnectCount(users, c)) >>

\* variant: the user_count after the delete is missing
LeaveEmitsNoCount(st, users, c) ==
  << UserLeftEv(BroadcastEmit(st, c), users[c].username) >>

\* events of socket.on('disconnect') for a registered socket, given the
\* sockets still connected and the registry before the delete
LeaveEmits(st, users, c) ==
  << UserLeftEv(BroadcastEmit(st, c), users[c].username),
     UserCountEv(IoEmit(st), DisconnectCount(users, c)) >>

\* variant: the if (user) guard is missing, the notifications always go out
DisconnectBodyUnguarded(srv, st, users, memory, c) ==
  [out |-> << UserLeftEv(BroadcastEmit(st, c),
                         IF MapHas(users, c) THEN users[c].username
                                             ELSE "undefined"),
              UserCountEv(IoEmit(st), DisconnectCount(users, c)) >>,
   connectedUsers |-> MapDelete(users, c),
   userMemory |-> IF srv = "buddy" THEN MapDelete(memory, c) ELSE memory]

\* variant: userMemory.delete(socket.id) is missing
DisconnectBodyKeepsMemory(srv, st, users, memory, c) ==
  IF MapHas(users, c)
    THEN [out |-> LeaveEmits(st, users, c),
          connectedUsers |-> MapDelete(users, c),
          userMemory |-> memory]
    ELSE [out |-> <<>>, connectedUsers |-> users, userMemory |-> memory]

\* the body of socket.on('disconnect'): the events it emits and the maps it
\* leaves, given the sockets still connected and the maps it finds
DisconnectBody(srv, st, users, memory, c) ==
  IF MapHas(users, c)
    THEN [out |-> LeaveEmits(st, users, c),
          connectedUsers |-> MapDelete(users, c),
          userMemory |-> IF srv = "buddy" THEN MapDelete(memory, c) ELSE memory]
    ELSE [out |-> <<>>, connectedUsers |-> users, userMemory |-> memory]

\* socket.on('disconnect'): the transport has closed socket c
Disconnect(c) ==
  /\ CanDispatch(c)
  /\ socketState' = [socketState EXCEPT ![c] = "closed"]
  /\ handled' = Handled("disconnect", c, NoData, -1)
  /\ LET body == DisconnectBody(server, socketState', connectedUsers, userMemory, c)
     IN  /\ out' = body.out
         /\ connectedUsers' = body.connectedUsers
         /\ userMemory' = body.userMemory
  /\ UNCHANGED <<now, echoId, server, process, heap, pending, nextEv, echoed, appended>>
  /\ lastCount' = LastUserCount(lastCount, out')

\* ------------------------------------------------------------------- Next
\* the clients send the texts of TextSeq in turn
NextText == TextSeq[nextEv + 1]

Next ==
  \/ \E c \in Conns : Connect(c) /\ UNCHANGED client
  \/ \E c \in Conns, userData \in JoinPayloads : UserJoin(c, userData) /\ UNCHANGED client
  \/ \E c \in Conns, messageData \in MessagePayloads :
       /\ nextEv < MaxMsgs
       /\ messageData.defined => messageData.message = NextText
       /\ Message(c, messageData)
       /\ UNCHANGED client
  \/ \E c \in Conns, data \in TypingPayloads : Typing(c, data) /\ UNCHANGED client
  \/ \E c \in Conns : Disconnect(c) /\ UNCHANGED client
  \/ \E p \in pending, aiResponse \in Replies : GenerateOk(p, aiResponse) /\ UNCHANGED client
  \/ \E p \in pending : GenerateFail(p) /\ UNCHANGED client

Spec == Init /\ [][Next]_vars

\* one connection's session: join, message x N, disconnect; the client sends
\* its texts in turn and keeps at most MaxOnePending generations in flight
NextOne ==
  \/ Connect(1) /\ UNCHANGED client
  \/ \E userData \in JoinPayloads :
       userData.defined /\ ~MapHas(connectedUsers, 1) /\ UserJoin(1, userData) /\ UNCHANGED client
  \/ \E messageData \in MessagePayloads :
       /\ nextEv < MaxOneMsgs
       /\ Cardinality(pending) < MaxOnePending
       /\ messageData.defined
       /\ MapHas(connectedUsers, 1)
       /\ messageData.username = connectedUsers[1].username
       /\ messageData.message = NextText
       /\ Message(1, messageData)
       /\ UNCHANGED client
  \/ Disconnect(1) /\ UNCHANGED client
  \/ \E p \in pending, aiResponse \in Replies : GenerateOk(p, aiResponse) /\ UNCHANGED client
  \/ \E p \in pending : GenerateFail(p) /\ UNCHANGED client

SpecOne == Init /\ [][NextOne]_vars

\* model.generateContent settles every promise it returned: the continuation
\* of each suspended handler is run, with the result or with the rejection
GenerationSettles ==
  \A e \in 0..(MaxMsgs - 1) :
    WF_vars(\E p \in pending :
              /\ p.ev = e
              /\ (GenerateFail(p) \/ \E aiResponse \in Replies : GenerateOk(p, aiResponse))
              /\ UNCHANGED client)

SpecFair == Init /\ [][Next]_vars /\ GenerationSettles

\* Date.now() advances by a millisecond
Tick ==
  /\ process = "running"
  /\ now < MaxClock
  /\ now' = now + 1
  /\ UNCHANGED <<server, process, socketState, connectedUsers, userMemory,
                 heap, pending, out, handled, nextEv, echoed, appended,
                 echoId, lastCount, client>>

\* one connection's session under a clock that advances
NextClock ==
  \/ Connect(1) /\ UNCHANGED client
  \/ \E userData \in JoinPayloads :
       userData.defined /\ ~MapHas(connectedUsers, 1) /\ UserJoin(1, userData) /\ UNCHANGED client
  \/ \E messageData \in MessagePayloads :
       /\ nextEv < MaxMsgs
       /\ messageData.defined
       /\ MapHas(connectedUsers, 1)
       /\ messageData.username = connectedUsers[1].username
       /\ messageData.message = NextText
       /\ Message(1, messageData)
       /\ UNCHANGED client
  \/ Disconnect(1) /\ UNCHANGED client
  \/ \E p \in pending, aiResponse \in Replies : GenerateOk(p, aiResponse) /\ UNCHANGED client
  \/ \E p \in pending : GenerateFail(p) /\ UNCHANGED client
  \/ Tick

SpecClock == Init /\ [][NextClock]_vars

\* ------------------------------------------------------ the frontend App
\* an event the client has emitted and the server has not handled yet
WireEv(name, data) == [name |-> name, data |-> data]

ServerFrame ==
  UNCHANGED <<server, process, socketState, connectedUsers, userMemory, heap,
              pending, out, handled, nextEv, echoed, appended, now, echoId,
              lastCount>>

\* the transport of the client's socket connects, the first time or again
\* after a drop, under the next socket id: io.on('connection') on the server,
\* newSocket.on('connect') in the App; what was emitted meanwhile is flushed
ClientConnect(c) ==
  /\ ~client.isConnected
  /\ Connect(c)
  /\ client' = [client EXCEPT !.socket = c, !.isConnected = TRUE]

\* onChange of the modal's input: setUsername(e.target.value)
SetUsername(u) ==
  /\ client.showUsernameModal
  /\ client' = [client EXCEPT !.username = u]
  /\ ServerFrame

\* handleUsernameSubmit: if (username.trim() && socket) emit user_join
HandleUsernameSubmit ==
  /\ client.showUsernameModal
  /\ client.username # ""
  /\ Len(client.wire) < MaxWire
  /\ client' = [client EXCEPT
                  !.showUsernameModal = FALSE,
                  !.wire = Append(@, WireEv("user_join",
                             [defined |-> TRUE, username |-> client.username]))]
  /\ ServerFrame

\* the send button is enabled: disabled={!message.trim() || !isConnected ||
\* !username}, and the modal no longer covers the form
CanSend ==
  /\ client.isConnected
  /\ client.username # ""
  /\ ~client.showUsernameModal

\* handleSendMessage: if (message.trim() && socket && username) emit message,
\* then emit typing {isTyping: false}
HandleSendMessage ==
  /\ CanSend
  /\ client.sent < MaxMsgs
  /\ Len(client.wire) + 2 <= MaxWire
  /\ client' = [client EXCEPT
                  !.sent = @ + 1,
                  !.wire = @ \o
                    << WireEv("message",
                         [defined |-> TRUE, message |-> TextSeq[client.sent + 1],
                          username |-> client.username]),
                       WireEv("typing", [defined |-> TRUE, isTyping |-> FALSE]) >>]
  /\ ServerFrame

\* the server receives the client's oldest event and runs its handler
Deliver ==
  /\ client.isConnected
  /\ client.wire # <<>>
  /\ LET e == Head(client.wire)
     IN  CASE e.name = "user_join" -> UserJoin(client.socket, e.data)
           [] e.name = "message" -> Message(client.socket, e.data)
           [] e.name = "typing" -> Typing(client.socket, e.data)
  /\ client' = [client EXCEPT !.wire = Tail(@)]

\* the transport drops: socket.on('disconnect') on the server,
\* newSocket.on('disconnect') in the App; what was written to the transport
\* and not received is lost
TransportDrop ==
  /\ client.isConnected
  /\ Disconnect(client.socket)
  /\ client' = [client EXCEPT !.isConnected = FALSE, !.wire = <<>>]

\* the session of one frontend client against the server
NextClient ==
  \/ \E c \in Conns : ClientConnect(c)
  \/ \E u \in Usernames : SetUsername(u)
  \/ HandleUsernameSubmit
  \/ HandleSendMessage
  \/ Deliver
  \/ TransportDrop
  \/ \E p \in pending, aiResponse \in Replies : GenerateOk(p, aiResponse) /\ UNCHANGED client
  \/ \E p \in pending : GenerateFail(p) /\ UNCHANGED client

SpecClient == Init /\ [][NextClient]_vars

TypeOK ==
  /\ server \in {"buddy", "plain"}
  /\ process \in {"running", "exited"}
  /\ socketState \in [Conns -> {"idle", "open", "closed"}]
  /\ DOMAIN connectedUsers \subseteq Conns
  /\ DOMAIN userMemory \subseteq Conns
  /\ nextEv \in 0..(MaxMsgs + MaxOneMsgs)

\* ------------------------------------------------------------ properties
OutIdx == 1..Len(out)
Emitted(name) == {i \in OutIdx : out[i].name = name}
ContextOf(c) == heap[userMemory[c]]

\* C1: the conversation context of every connection (its userMemory entry)
\* never holds more than Cap turns, user and assistant turns together.
C1_ContextWithinCap ==
  \A c \in DOMAIN userMemory : Len(ContextOf(c)) <= Cap

\* C2: when the generation fails, exactly one ai_message of type "ai_error"
\* is emitted for that message, and it goes to all connections.
C2_FailureBroadcastsAiError ==
  handled.kind = "generate_fail" =>
    /\ Cardinality({i \in Emitted("ai_message") : out[i].type = "ai_error"}) = 1
    /\ \A i \in Emitted("ai_message") : out[i].to = IoEmit(socketState)

\* C3: the handling of one connection's messages is serialized: no second
\* message of a connection is handled while the generation of an earlier
\* message of that connection is still pending.
C3_MessagesSerialized ==
  \A p \in pending, q \in pending : p.conn = q.conn => p = q

\* C4: the user_message of a message event has been broadcast before any
\* ai_message of the same event is, and before its generation is pending.
C4_EchoBeforeAiMessage ==
  /\ \A p \in pending : p.ev \in echoed
  /\ (handled.kind \in {"generate_ok", "generate_fail"}
        /\ Emitted("ai_message") # {}) => handled.ev \in echoed

C4_Witness ==
  /\ handled.kind = "generate_ok"
  /\ Emitted("ai_message") # {}
  /\ handled.ev \in echoed

\* C5: the context of a connection is a contiguous suffix of the turns ever
\* appended to it, in order: evictions remove the oldest entries only.
C5_ContextIsSuffix ==
  \A c \in DOMAIN userMemory :
    LET all == appended[userMemory[c]]
        ctx == ContextOf(c)
    IN  /\ Len(ctx) <= Len(all)
        /\ ctx = SubSeq(all, Len(all) - Len(ctx) + 1, Len(all))

C5_Witness ==
  \E c \in DOMAIN userMemory :
    /\ Len(appended[userMemory[c]]) > Len(ContextOf(c))
    /\ handled.kind = "message"
    /\ ContextOf(c)[Len(ContextOf(c))] = UserTurn(handled.data.message)

\* C6: every user_count emitted by user_join or disconnect carries the size
\* of the registry after the handler's own insert or delete.
C6_UserCountIsRegistrySize ==
  handled.kind \in {"user_join", "disconnect"} =>
    \A i \in Emitted("user_count") : out[i].count = MapSize(connectedUsers)

C6_Witness ==
  /\ handled.kind = "disconnect"
  /\ Emitted("user_count") # {}
  /\ MapSize(connectedUsers) = 1

\* C7: a message from a connection that is not in the registry produces one
\* error event to the sender only, and nothing else: no broadcast, no context
\* entry, no generation call.
C7_UnregisteredMessageRejected ==
  [][ (handled'.kind = "message" /\ ~MapHas(connectedUsers, handled'.conn)) =>
        /\ Len(out') = 1
        /\ out'[1].name = "error"
        /\ out'[1].to = {handled'.conn}
        /\ UNCHANGED <<connectedUsers, userMemory, heap, pending>> ]_vars

C7_Witness ==
  /\ handled.kind = "message"
  /\ handled.data.defined
  /\ ~MapHas(connectedUsers, handled.conn)
  /\ out = << ErrorEv({handled.conn}, "User not found. Please reconnect.") >>

\* C8: a typing event from a connection that is not in the registry emits
\* nothing and changes neither the registry nor the context store.
C8_UnregisteredTypingIgnored ==
  [][ (handled'.kind = "typing" /\ ~MapHas(connectedUsers, handled'.conn)) =>
        /\ out' = <<>>
        /\ process' = "running"
        /\ UNCHANGED <<connectedUsers, userMemory, heap>> ]_vars

C8_Witness ==
  /\ handled.kind = "typing"
  /\ ~MapHas(connectedUsers, handled.conn)
  /\ out = <<>>
  /\ \E d \in Conns \ {handled.conn} : socketState[d] = "open"

\* C9: while a generation of one connection is pending, the user_join,
\* message, typing and disconnect events of every other open connection are
\* enabled: they are handled without waiting for the generation.
C9_OthersNotBlocked ==
  \A p \in pending : \A d \in Conns \ {p.conn} :
    (process = "running" /\ socketState[d] = "open") =>
      /\ \A userData \in JoinPayloads : ENABLED UserJoin(d, userData)
      /\ \A messageData \in MessagePayloads : ENABLED Message(d, messageData)
      /\ \A data \in TypingPayloads : ENABLED Typing(d, data)
      /\ ENABLED Disconnect(d)

C9_Witness ==
  \E p \in pending :
    /\ handled.conn # p.conn
    /\ handled.kind = "user_join"
    /\ MapHas(connectedUsers, handled.conn)
    /\ Emitted("user_count") # {}

\* C10: an exception raised inside a handler is caught at the handler's
\* boundary and turned into an error event to the originating connection;
\* it never terminates the process.
HandlerThrew ==
  \/ handled.kind \in {"user_join", "message"} /\ ~handled.data.defined
  \/ handled.kind = "typing" /\ ~handled.data.defined
       /\ MapHas(connectedUsers, handled.conn)

C10_HandlerFaultsContained ==
  /\ process = "running"
  /\ HandlerThrew =>
       \E i \in Emitted("error") : handled.conn \in out[i].to

\* C11: a failed generation neither closes nor unregisters a connection and
\* does not end the process: the registry and the sockets are as before, and
\* a sender that is still connected and registered can send a next message,
\* which is broadcast as user_message.
C11_FailureKeepsConnection ==
  /\ [][ handled'.kind = "generate_fail" =>
           /\ connectedUsers' = connectedUsers
           /\ socketState' = socketState
           /\ process' = "running" ]_vars
  /\ [] ( ( /\ handled.kind = "generate_fail"
            /\ socketState[handled.conn] = "open"
            /\ MapHas(connectedUsers, handled.conn) ) =>
          \A messageData \in MessagePayloads : messageData.defined =>
            ENABLED ( /\ Message(handled.conn, messageData)
                      /\ \E i \in 1..Len(out') : out'[i].name = "user_message" ) )

C11_Witness ==
  /\ handled.kind = "generate_fail"
  /\ process = "running"
  /\ socketState[handled.conn] = "open"
  /\ MapHas(connectedUsers, handled.conn)
  /\ MapSize(connectedUsers) = 2

\* C12: a connection whose disconnect has been handled has no entry in the
\* registry and none in the context store, in every later state; a reply that
\* arrives after the disconnect does not bring the context back.
C12_ClosedHasNoEntries ==
  \A c \in Conns : socketState[c] = "closed" =>
    ~MapHas(connectedUsers, c) /\ ~MapHas(userMemory, c)

C12_Witness ==
  /\ server = "buddy"
  /\ handled.kind = "generate_ok"
  /\ socketState[handled.conn] = "closed"
  /\ Len(heap[handled.conn]) >= 2
  /\ ~MapHas(userMemory, handled.conn)

\* C13: on user_join, user_joined with the joiner's username goes to every
\* other open connection and not to the joiner; user_count goes to all open
\* connections, the joiner included.
C13_JoinRecipients ==
  (handled.kind = "user_join" /\ handled.data.defined) =>
    /\ Cardinality(Emitted("user_joined")) = 1
    /\ Cardinality(Emitted("user_count")) = 1
    /\ \A i \in Emitted("user_joined") :
         /\ out[i].username = handled.data.username
         /\ out[i].to = {d \in Conns : socketState[d] = "open"} \ {handled.conn}
    /\ \A i \in Emitted("user_count") :
         /\ out[i].to = {d \in Conns : socketState[d] = "open"}
         /\ handled.conn \in out[i].to

C13_Witness ==
  /\ handled.kind = "user_join"
  /\ handled.data.defined
  /\ \E i \in Emitted("user_joined") : out[i].to # {}

\* C14: on disconnect, user_left is emitted exactly when the connection was
\* in the registry; it goes to all other connections, not to the one that
\* left, and carries the username the registry held for it.
C14_UserLeftIffRegistered ==
  [][ handled'.kind = "disconnect" =>
        LET c == handled'.conn
            left == {i \in 1..Len(out') : out'[i].name = "user_left"}
        IN  /\ (left # {}) <=> MapHas(connectedUsers, c)
            /\ Cardinality(left) <= 1
            /\ \A i \in left :
                 /\ out'[i].to = {d \in Conns : socketState'[d] = "open"} \ {c}
                 /\ c \notin out'[i].to
                 /\ out'[i].username = connectedUsers[c].username ]_vars

C14_Witness ==
  /\ handled.kind = "disconnect"
  /\ \E i \in Emitted("user_left") : out[i].to # {}

\* C15 as stated: every disconnect, of a joined connection or of one that
\* never joined, emits a user_count.
C15_EveryDisconnectCounts ==
  handled.kind = "disconnect" => Emitted("user_count") # {}

\* C15 amended: a disconnect of a registered connection emits one user_count
\* to all remaining connections; a disconnect of a connection that is not in
\* the registry emits no user_count.
C15_DisconnectCountsIfRegistered ==
  [][ handled'.kind = "disconnect" =>
        LET c == handled'.conn
            counts == {i \in 1..Len(out') : out'[i].name = "user_count"}
        IN  /\ MapHas(connectedUsers, c) =>
                 /\ Cardinality(counts) = 1
                 /\ \A i \in counts :
                      out'[i].to = {d \in Conns : socketState'[d] = "open"}
            /\ ~MapHas(connectedUsers, c) => counts = {} ]_vars

C15_Witness ==
  /\ handled.kind = "disconnect"
  /\ \E i \in Emitted("user_count") : out[i].to # {} /\ out[i].count = 1

\* C16: a connection's messages are echoed and applied in the order sent:
\* when the user_message of a message is broadcast, those of all messages
\* sent before it have been broadcast and its own has not, and the user turns
\* in a context stand in the order in which their messages were sent.
UserTurnsInOrder(chatHistory) ==
  \A i \in 1..Len(chatHistory), j \in 1..Len(chatHistory) :
    (i < j /\ chatHistory[i].role = "user" /\ chatHistory[j].role = "user")
      => SeqNo(chatHistory[i].content) < SeqNo(chatHistory[j].content)

C16_MessagesInOrderSent ==
  [][ /\ \A i \in 1..Len(out') : out'[i].name = "user_message" =>
           LET k == SeqNo(out'[i].message) - 1
           IN  /\ k \notin echoed
               /\ \A e \in 0..(k - 1) : e \in echoed
      /\ \A c \in DOMAIN userMemory' : UserTurnsInOrder(heap'[userMemory'[c]]) ]_vars

C16_Witness ==
  /\ handled.kind = "message"
  /\ handled.ev >= 1
  /\ Emitted("user_message") # {}
  /\ MapHas(userMemory, handled.conn)
  /\ Cardinality({i \in 1..Len(ContextOf(handled.conn)) :
                    ContextOf(handled.conn)[i].role = "user"}) >= 2

\* C17: an accepted message issues exactly one generation call, a rejected
\* message issues none, and a call that returns or fails is not issued again.
C17_OneGenerationPerMessage ==
  [][ /\ handled'.kind = "message" =>
           IF handled'.data.defined /\ MapHas(connectedUsers, handled'.conn)
             THEN \E p \in pending' \ pending :
                    /\ pending' = pending \cup {p}
                    /\ p.conn = handled'.conn
                    /\ p.ev = handled'.ev
             ELSE pending' = pending
      /\ handled'.kind \in {"generate_ok", "generate_fail"} =>
           /\ pending' \subseteq pending
           /\ Cardinality(pending \ pending') = 1
           /\ \A p \in pending' : p.ev # handled'.ev ]_vars

C17_Witness ==
  /\ handled.kind = "generate_fail"
  /\ pending # {}
  /\ \A p \in pending : p.ev # handled.ev

\* C20: a user_join of a registered connection replaces its entry, the new
\* username winning, and leaves the size as it was; the registry gains an
\* entry only by the user_join of that connection and loses it only by its
\* disconnect, so it holds one entry per connection joined and not yet gone.
C20_JoinReplaces ==
  [][ process' = "running" =>
        /\ (handled'.kind = "user_join" /\ handled'.data.defined) =>
             /\ DOMAIN connectedUsers' = DOMAIN connectedUsers \cup {handled'.conn}
             /\ connectedUsers'[handled'.conn].username = handled'.data.username
             /\ \A d \in DOMAIN connectedUsers \ {handled'.conn} :
                  connectedUsers'[d] = connectedUsers[d]
        /\ handled'.kind = "disconnect" =>
             /\ DOMAIN connectedUsers' = DOMAIN connectedUsers \ {handled'.conn}
             /\ \A d \in DOMAIN connectedUsers' : connectedUsers'[d] = connectedUsers[d]
        /\ handled'.kind \notin {"user_join", "disconnect"} =>
             connectedUsers' = connectedUsers
        /\ DOMAIN connectedUsers' \subseteq {d \in Conns : socketState'[d] = "open"} ]_vars

\* a user_join handled for a socket that was registered already: it has a
\* generation pending, which only a registered socket can have issued
C20_Witness ==
  /\ handled.kind = "user_join"
  /\ handled.data.defined
  /\ \E p \in pending : p.conn = handled.conn
  /\ MapSize(connectedUsers) = 1
  /\ connectedUsers[handled.conn].username = handled.data.username

\* C18: between handlers of the running server, once a user_count has been
\* broadcast, the count broadcast last is the size of the registry.
C18_LastCountIsRegistrySize ==
  (process = "running" /\ lastCount # -1) => lastCount = MapSize(connectedUsers)

C18_Witness ==
  /\ process = "running"
  /\ lastCount = 1
  /\ handled.kind = "disconnect"
  /\ \E c \in Conns : socketState[c] = "closed"
  /\ MapSize(connectedUsers) = 1

\* C19 as stated: the id of an ai_message is the id of the user_message that
\* triggered it plus 1.
C19_AiIdIsUserIdPlusOne ==
  handled.kind \in {"generate_ok", "generate_fail"} =>
    \A i \in Emitted("ai_message") : out[i].id = echoId[handled.ev] + 1

\* C19 amended: the id of an ai_message is the millisecond clock at its
\* emission plus 1, which is at least the id of the triggering user_message
\* plus 1.
C19_AiIdIsClockPlusOne ==
  [][ (now' = now /\ handled'.kind \in {"generate_ok", "generate_fail"}) =>
        \A i \in 1..Len(out') : out'[i].name = "ai_message" =>
          /\ out'[i].id = now + 1
          /\ out'[i].id >= echoId[handled'.ev] + 1 ]_vars

C19_Witness ==
  /\ handled.kind = "generate_ok"
  /\ \E i \in Emitted("ai_message") :
       out[i].id = now + 1 /\ out[i].id > echoId[handled.ev] + 1

\* C21: removal is idempotent: the disconnect handler run for a connection
\* that is not in the registry (it never joined, or the handler has run for
\* it already) changes neither the registry nor any context, emits nothing,
\* so no user_left, and raises no error.
C21_RemovalIdempotent ==
  /\ [][ (handled'.kind = "disconnect" /\ ~MapHas(connectedUsers, handled'.conn)) =>
           /\ out' = <<>>
           /\ process' = "running"
           /\ UNCHANGED <<connectedUsers, userMemory, heap, pending>> ]_vars
  /\ [] ( \A c \in Conns :
            LET st == [socketState EXCEPT ![c] = "closed"]
                first == DisconnectBody(server, st, connectedUsers, userMemory, c)
                second == DisconnectBody(server, st, first.connectedUsers,
                                         first.userMemory, c)
            IN  /\ second.out = <<>>
                /\ second.connectedUsers = first.connectedUsers
                /\ second.userMemory = first.userMemory )

C21_Witness ==
  /\ handled.kind = "disconnect"
  /\ out = <<>>
  /\ process = "running"
  /\ MapSize(connectedUsers) = 1
  /\ MapSize(userMemory) = 1

\* C22: a typing event, with its payload, from a registered connection emits
\* one user_typing that carries the username the registry holds and the
\* isTyping flag of the payload, to all other connections and not to the
\* sender, and leaves the registry and every context unchanged.
C22_TypingRelayed ==
  [][ ( /\ handled'.kind = "typing"
        /\ handled'.data.defined
        /\ MapHas(connectedUsers, handled'.conn) ) =>
        LET c == handled'.conn
        IN  /\ Len(out') = 1
            /\ out'[1].name = "user_typing"
            /\ out'[1].username = connectedUsers[c].username
            /\ out'[1].isTyping = handled'.data.isTyping
            /\ out'[1].to = {d \in Conns : socketState[d] = "open"} \ {c}
            /\ c \notin out'[1].to
            /\ UNCHANGED <<connectedUsers, userMemory, heap>> ]_vars

C22_Witness ==
  /\ handled.kind = "typing"
  /\ handled.data.defined
  /\ MapHas(connectedUsers, handled.conn)
  /\ MapSize(userMemory) >= 1
  /\ \E i \in Emitted("user_typing") : out[i].to # {} /\ out[i].isTyping

\* C23: contexts are not shared: a message of connection c and its reply
\* change only c's context, every other connection's context stays as it
\* was, and the prompt built for c's message holds only turns of c's context;
\* no two connections use one array and no text of one connection's messages
\* stands in another's context or prompt.
UserTexts(chatHistory) ==
  {chatHistory[i].content :
     i \in {j \in 1..Len(chatHistory) : chatHistory[j].role = "user"}}
PromptTexts(prompt) == {prompt[i][2] : i \in {j \in 1..Len(prompt) : prompt[j][1] # "Buddy"}}

C23_ContextsNotShared ==
  /\ [][ handled'.kind \in {"message", "generate_ok", "generate_fail"} =>
           LET c == handled'.conn
           IN  /\ \A d \in Conns \ {c} :
                    /\ MapHas(userMemory', d) <=> MapHas(userMemory, d)
                    /\ MapHas(userMemory, d) =>
                         heap'[userMemory'[d]] = heap[userMemory[d]]
               /\ \A p \in pending' \ pending : server = "buddy" =>
                    LET own == HistoryString(heap'[userMemory'[c]])
                    IN  \A i \in 1..Len(p.prompt) :
                          \E j \in 1..Len(own) : p.prompt[i] = own[j] ]_vars
  /\ [] ( /\ \A c \in DOMAIN userMemory, d \in DOMAIN userMemory : c # d =>
               /\ userMemory[c] # userMemory[d]
               /\ UserTexts(ContextOf(c)) \cap UserTexts(ContextOf(d)) = {}
          /\ \A p \in pending : \A d \in DOMAIN userMemory \ {p.conn} :
               PromptTexts(p.prompt) \cap UserTexts(ContextOf(d)) = {} )

C23_Witness ==
  /\ server = "buddy"
  /\ handled.kind = "generate_ok"
  /\ MapHas(userMemory, handled.conn)
  /\ Len(ContextOf(handled.conn)) >= 2
  /\ \E d \in DOMAIN userMemory \ {handled.conn} : Len(ContextOf(d)) >= 1

\* C24: no accepted message is left hanging: when the backend settles every
\* generation call, every message handler that is suspended on its call
\* eventually finishes, having emitted one outcome event for its message: an
\* ai_message on success, a fallback or error notification on failure.
Outcome(e) ==
  /\ handled.kind \in {"generate_ok", "generate_fail"}
  /\ handled.ev = e
  /\ e \in echoed
  /\ Len(out) = 1
  /\ out[1].name \in {"ai_message", "error"}

C24_AcceptedMessageGetsOutcome ==
  \A e \in 0..(MaxMsgs - 1) : (\E p \in pending : p.ev = e) ~> Outcome(e)

\* the same, for the runs in which the process is not ended meanwhile
C24_OutcomeUnlessExited ==
  \A e \in 0..(MaxMsgs - 1) :
    (\E p \in pending : p.ev = e) ~> (Outcome(e) \/ process = "exited")

\* a generation has settled whose sender had disconnected meanwhile
SettledAfterLeave ==
  /\ handled.kind \in {"generate_ok", "generate_fail"}
  /\ socketState[handled.conn] = "closed"

\* C25 as stated: a generation pending when its sender disconnects is not
\* cancelled: on success its ai_message is broadcast once to all remaining
\* connections; on failure no event reaches any remaining connection; no
\* fault is raised.
C25_LateFailureReachesNobody ==
  SettledAfterLeave =>
    /\ process = "running"
    /\ handled.kind = "generate_ok" =>
         /\ Cardinality(Emitted("ai_message")) = 1
         /\ \A i \in Emitted("ai_message") : out[i].to = IoEmit(socketState)
    /\ handled.kind = "generate_fail" => \A i \in OutIdx : out[i].to = {}

\* C25 amended: the disconnect of the sender leaves its pending generation
\* pending; when it succeeds, its ai_message is broadcast once to all
\* remaining connections; when it fails, the plain server broadcasts its one
\* ai_error ai_message to all remaining connections, and the Buddy server
\* emits its one error to the closed sender, which reaches nobody; no fault is
\* raised.
C25_LateOutcomeAsForAnySender ==
  /\ [][ handled'.kind = "disconnect" => pending' = pending ]_vars
  /\ [] ( SettledAfterLeave =>
            /\ process = "running"
            /\ Len(out) = 1
            /\ handled.kind = "generate_ok" =>
                 /\ out[1].name = "ai_message" /\ out[1].type = "ai"
                 /\ out[1].to = IoEmit(socketState)
            /\ (handled.kind = "generate_fail" /\ server = "plain") =>
                 /\ out[1].name = "ai_message" /\ out[1].type = "ai_error"
                 /\ out[1].to = IoEmit(socketState)
            /\ (handled.kind = "generate_fail" /\ server = "buddy") =>
                 /\ out[1].name = "error"
                 /\ out[1].to = {} )

C25_Witness ==
  /\ SettledAfterLeave
  /\ handled.kind = "generate_ok"
  /\ \E i \in Emitted("ai_message") :
       out[i].to # {} /\ handled.conn \notin out[i].to

\* C26: in every reachable state the connections that have a context are
\* among the connections in the registry: a context is created only by a
\* message of a registered connection, and the step that removes a registry
\* entry removes the connection's context with it.
C26_ContextOnlyForRegistered ==
  /\ [][ /\ \A c \in DOMAIN userMemory' \ DOMAIN userMemory :
              /\ handled'.kind = "message"
              /\ handled'.conn = c
              /\ MapHas(connectedUsers, c)
         /\ \A c \in DOMAIN connectedUsers \ DOMAIN connectedUsers' :
              ~MapHas(userMemory', c) ]_vars
  /\ [] (DOMAIN userMemory \subseteq DOMAIN connectedUsers)

C26_Witness ==
  /\ server = "buddy"
  /\ handled.kind = "disconnect"
  /\ Len(heap[handled.conn]) >= 1
  /\ ~MapHas(userMemory, handled.conn)
  /\ ~MapHas(connectedUsers, handled.conn)
  /\ MapSize(userMemory) = 1

\* C27: every user_message carries the username under which its sender is
\* registered, the one user_typing and user_left report for that connection:
\* a registered connection cannot broadcast under another username by
\* putting it in the payload.
C27_MessageUnderRegisteredName ==
  (handled.kind = "message" /\ MapHas(connectedUsers, handled.conn)) =>
    \A i \in Emitted("user_message") :
      out[i].username = connectedUsers[handled.conn].username

\* C28: whenever the frontend lets a message be sent (socket connected,
\* username chosen, join submitted, and here even handled by the server), the
\* server has the client's current connection in the registry when it handles
\* the message: the message is broadcast, not rejected, also after the
\* transport has dropped and connected again under a new socket id.
C28_ClientMessagesAccepted ==
  (handled.kind = "message" /\ handled.conn = client.socket /\ lastCount # -1) =>
    /\ MapHas(connectedUsers, handled.conn)
    /\ Emitted("user_message") # {}
    /\ Emitted("error") = {}

====
